---- MODULE Spec2Model ----
(***************************************************************************)
(* Room session coordinator of the collaborative whiteboard backend        *)
(* (backend/src/index.ts): the in-memory rooms and boards maps, the        *)
(* per-connection closure (currentUser, currentRoom), the socket.io group  *)
(* membership, the seven connection event handlers and the periodic        *)
(* cleanup of inactive users.  Every handler runs to completion (Node's    *)
(* single-threaded event loop), so each handler is one atomic action.      *)
(***************************************************************************)
EXTENDS Integers, Sequences, FiniteSets, TLC

VARIABLES
    rooms,        \* rooms: { [roomId]: User[] }; DOMAIN rooms = the keys present
    roomKeys,     \* insertion order of the keys of rooms (order of Object.keys)
    boards,       \* boards: { [roomId]: {lines, shapes} }; DOMAIN = keys present
    groups,       \* socket.io room membership: roomId -> set of sockets
    conn,         \* per socket: "idle" (not yet connected), "open", "closed"
    currentUser,  \* per socket closure variable: id of the User object, or NoUser
    currentRoom,  \* per socket closure variable: roomId, or NoRoom
    out,          \* the emissions of the handler that ran last, in order
    last,         \* the event the handler that ran last was given
    running,      \* the Node process runs (no handler has thrown)
    steps         \* how many handlers have run since the start

vars == <<rooms, roomKeys, boards, groups, conn, currentUser, currentRoom,
          out, last, running, steps>>

-----------------------------------------------------------------------------
(* Bounds of the model *)

MaxSteps == 5          \* at most this many event handlers and timer callbacks run
MaxLiveEvents == 2     \* client events in the runs in which the timer never stops
MaxBoardSteps == 6     \* handlers and timer callbacks in the runs of one room
MaxFaultSteps == 5     \* handlers and timer callbacks in the runs with malformed events

(* Program constants *)

timeout == 30000       \* const timeout = 30000
SweepInterval == 10000 \* setInterval(..., 10000)

\* Date.now().  The code only ever compares now - lastSeen with the timeout, so
\* timestamps are kept relative to the current time: the present is 0, and when
\* the clock advances by d every stored lastSeen moves back by d.
Now == 0

userColors ==
    << "#FF6B6B", "#4ECDC4", "#45B7D1", "#96CEB4", "#FFEAA7",
       "#DDA0DD", "#98D8C8", "#F7DC6F", "#BB8FCE", "#85C1E9",
       "#F39C12", "#E74C3C", "#9B59B6", "#3498DB", "#1ABC9C" >>

\* `#${Math.floor(Math.random() * 16777215).toString(16)}`: "#" followed by one
\* to six lower-case hex digits; any of them can come out, a sample stands for all
RandomColors == { "#a1b2c3", "#7" }

(* Absent values *)

NoUser == "null"       \* currentUser === null
NoRoom == "null"       \* currentRoom === null
NoColor == ""          \* user.color undefined or empty (falsy)
NoCursor == <<>>       \* cursor null or undefined (falsy); a cursor is <<x, y>>

\* a field that the payload of an event does not have is undefined: as a room id
\* it is the key "undefined" of rooms and boards and the group undefined of the
\* transport, and it is falsy; a missing object has no fields to read
Undefined == "undefined"
MissingObject == <<>>
IsMissing(obj) == DOMAIN obj = {}

EmptyBoard == [lines |-> <<>>, shapes |-> <<>>]

-----------------------------------------------------------------------------
(* Input universes *)

Sockets == { "s1", "s2" }
\* socket ids are fresh per connection: the k-th connection is called sk
SocketNo(s) == IF s = "s1" THEN 1 ELSE 2
RoomIds == { "r1", "r2" }
\* the groups of the transport: one per room id a client can send
GroupKeys == RoomIds \cup { Undefined }
UserIds == { "u1", "u2" }
Cursors == { <<2, 2>> }

\* the user objects a client sends with joinRoom
JoinUsers ==
    { [id |-> "u1", name |-> "Ann", color |-> NoColor, cursor |-> NoCursor],
      [id |-> "u1", name |-> "Ann", color |-> "#4ECDC4", cursor |-> <<1, 1>>],
      [id |-> "u2", name |-> "Bob", color |-> "#FF6B6B", cursor |-> NoCursor] }

\* strokeData payloads: tool, type and points are the only fields the server reads;
\* points = "" stands for a payload without a points field
PenStroke == [tool |-> "pen", type |-> "", points |-> "pts"]
Rectangle == [tool |-> "", type |-> "rectangle", points |-> ""]
TextStroke == [tool |-> "text", type |-> "text", points |-> ""]
Strokes == { PenStroke, Rectangle, TextStroke }

\* further payloads: a circle, pen input without points, and point data that is
\* also tagged as a rectangle
Circle == [tool |-> "", type |-> "circle", points |-> ""]
PenNoPoints == [tool |-> "pen", type |-> "circle", points |-> ""]
PointsRectangle == [tool |-> "", type |-> "rectangle", points |-> "pts"]
AllStrokes == Strokes \cup { Circle, PenNoPoints, PointsRectangle }

\* the (lines, shapes) pairs a client sends with updateBoard
BoardUpdates ==
    { [lines |-> <<PenStroke>>, shapes |-> <<Rectangle>>] }

-----------------------------------------------------------------------------
(* Helpers *)

Range(seq) == { seq[i] : i \in 1..Len(seq) }

\* rooms[roomId] || []
RoomOf(roomId) == IF roomId \in DOMAIN rooms THEN rooms[roomId] ELSE <<>>

\* room.findIndex((u) => u.id === userId), 1-based; 0 stands for -1
findIndex(room, userId) ==
    IF \E i \in 1..Len(room) : room[i].id = userId
    THEN CHOOSE i \in 1..Len(room) :
            /\ room[i].id = userId
            /\ \A j \in 1..(i - 1) : room[j].id # userId
    ELSE 0

\* mutant: the comparison is inverted, only the records of userId are kept
filterOutId_KeepsOnlyId(room, userId) == SelectSeq(room, LAMBDA u : u.id = userId)

\* room.filter((u) => u.id !== userId)
filterOutId(room, userId) == SelectSeq(room, LAMBDA u : u.id # userId)

\* mutant: the subtraction is the wrong way round, nobody ever times out
activeUsers_SignSwapped(room, t) ==
    SelectSeq(room, LAMBDA u : u.lastSeen - t < timeout)

\* mutant: a user is kept until its age exceeds the timeout
activeUsers_KeepsAtTimeout(room, t) ==
    SelectSeq(room, LAMBDA u : t - u.lastSeen <= timeout)

\* room.filter((user) => now - user.lastSeen < timeout)
activeUsers(room, t) == SelectSeq(room, LAMBDA u : t - u.lastSeen < timeout)

\* getNextAvailableColor: the colors it can return for a room
getNextAvailableColor(room) ==
    LET usedColors == { room[i].color : i \in 1..Len(room) }
        free == { k \in 1..Len(userColors) : userColors[k] \notin usedColors }
    IN  IF free # {}
        THEN { userColors[CHOOSE k \in free : \A j \in free : k <= j] }
        ELSE RandomColors

\* mutant: a requested color is taken without the conflict check
assignColor_NoConflictCheck(room, userColor) ==
    IF userColor = NoColor THEN getNextAvailableColor(room) ELSE { userColor }

\* the color of a new user: the requested one unless missing or in use
assignColor(room, userColor) ==
    IF userColor = NoColor \/ \E i \in 1..Len(room) : room[i].color = userColor
    THEN getNextAvailableColor(room)
    ELSE { userColor }

\* mutant: the reconnect also takes the color of the request
reconnectUser_TakesColor(existingUser, user, s, t) ==
    [existingUser EXCEPT
        !.socketId = s,
        !.lastSeen = t,
        !.isActive = TRUE,
        !.color = IF user.color # NoColor THEN user.color ELSE @,
        !.cursor = IF user.cursor # NoCursor THEN user.cursor ELSE @]

\* joinRoom, user exists: the existing User object after the update
reconnectUser(existingUser, user, s, t) ==
    [existingUser EXCEPT
        !.socketId = s,
        !.lastSeen = t,
        !.isActive = TRUE,
        !.cursor = IF user.cursor # NoCursor THEN user.cursor ELSE @]

\* joinRoom, new user: userWithSocket
userWithSocket(user, userColor, s, t) ==
    [id |-> user.id, name |-> user.name, color |-> userColor,
     cursor |-> user.cursor, isActive |-> TRUE, lastSeen |-> t, socketId |-> s]

\* mutant: the existing record is not looked for, every join pushes a record
joinedRoom_AlwaysPushes(room, user, userColor, s, t) ==
    Append(room, userWithSocket(user, userColor, s, t))

\* rooms[roomId] after joinRoom
joinedRoom(room, user, userColor, s, t) ==
    LET existingUserIndex == findIndex(room, user.id)
    IN  IF existingUserIndex # 0
        THEN [room EXCEPT ![existingUserIndex] = reconnectUser(@, user, s, t)]
        ELSE Append(room, userWithSocket(user, userColor, s, t))

\* mutant: the socket identity check is missing
isCurrentSocket_NoIdentityCheck(room, userId, s) == findIndex(room, userId) # 0

\* disconnect: userInRoom && userInRoom.socketId === socket.id
isCurrentSocket(room, userId, s) ==
    /\ findIndex(room, userId) # 0
    /\ room[findIndex(room, userId)].socketId = s

\* cursorMove: the room after the target user's cursor and lastSeen are set
movedCursor(room, userIndex, cursor, t) ==
    [room EXCEPT ![userIndex] = [@ EXCEPT !.cursor = cursor, !.lastSeen = t]]

\* mutant: the stroke is put in front of the stored ones
appendStroke_Prepends(board, strokeData) ==
    IF strokeData.tool = "pen" \/ strokeData.points # ""
    THEN [board EXCEPT !.lines = <<strokeData>> \o @]
    ELSE IF strokeData.type = "rectangle" \/ strokeData.type = "circle"
         THEN [board EXCEPT !.shapes = <<strokeData>> \o @]
         ELSE board

\* mutant: the shape type is looked at before the points
appendStroke_ShapeTypeFirst(board, strokeData) ==
    IF strokeData.type = "rectangle" \/ strokeData.type = "circle"
    THEN [board EXCEPT !.shapes = Append(@, strokeData)]
    ELSE IF strokeData.tool = "pen" \/ strokeData.points # ""
         THEN [board EXCEPT !.lines = Append(@, strokeData)]
         ELSE board

\* draw: the board after the stroke is classified and stored
appendStroke(board, strokeData) ==
    IF strokeData.tool = "pen" \/ strokeData.points # ""
    THEN [board EXCEPT !.lines = Append(@, strokeData)]
    ELSE IF strokeData.type = "rectangle" \/ strokeData.type = "circle"
         THEN [board EXCEPT !.shapes = Append(@, strokeData)]
         ELSE board

\* the map m with m[k] = v (the key is added when absent)
Put(m, k, v) == [x \in DOMAIN m \cup {k} |-> IF x = k THEN v ELSE m[x]]

\* socket.emit(ev, arg)
Unicast(s, roomId, ev, arg) ==
    [cast |-> "socket.emit", room |-> roomId, to |-> {s}, ev |-> ev, arg |-> arg]

\* socket.to(roomId).emit(ev, arg): the group of roomId except the sender
ToOthers(grp, s, roomId, ev, arg) ==
    [cast |-> "socket.to", room |-> roomId, to |-> grp[roomId] \ {s},
     ev |-> ev, arg |-> arg]

\* io.to(roomId).emit(ev, arg): the whole group of roomId
ToAll(grp, roomId, ev, arg) ==
    [cast |-> "io.to", room |-> roomId, to |-> grp[roomId], ev |-> ev, arg |-> arg]

\* mutant: userJoined goes to the whole group, the joining socket included
joinEmits_EchoesUserJoined(grp, s, roomId, board, room, joined) ==
    << Unicast(s, roomId, "loadBoard", board),
       Unicast(s, roomId, "userList", room),
       ToAll(grp, roomId, "userJoined", joined) >>

\* joinRoom: loadBoard and userList to the joining socket, userJoined to the others
joinEmits(grp, s, roomId, board, room, joined) ==
    << Unicast(s, roomId, "loadBoard", board),
       Unicast(s, roomId, "userList", room),
       ToOthers(grp, s, roomId, "userJoined", joined) >>

Event(op, s, arg) == [op |-> op, sock |-> s, arg |-> arg]

-----------------------------------------------------------------------------
(* Initial state: no room, no board, no connection; the interval timer is set *)

Init ==
    /\ rooms = << >>
    /\ roomKeys = << >>
    /\ boards = << >>
    /\ groups = [r \in GroupKeys |-> {}]
    /\ conn = [s \in Sockets |-> "idle"]
    /\ currentUser = [s \in Sockets |-> NoUser]
    /\ currentRoom = [s \in Sockets |-> NoRoom]
    /\ out = << >>
    /\ last = Event("init", "", << >>)
    /\ running = TRUE
    /\ steps = 0

-----------------------------------------------------------------------------
(* Handlers *)

\* io.on("connection"): a new socket; its closure starts with null, null
Connect(s) ==
    /\ running
    /\ conn[s] = "idle"
    /\ \A s0 \in Sockets : SocketNo(s0) < SocketNo(s) => conn[s0] # "idle"
    /\ conn' = [conn EXCEPT ![s] = "open"]
    /\ currentUser' = [currentUser EXCEPT ![s] = NoUser]
    /\ currentRoom' = [currentRoom EXCEPT ![s] = NoRoom]
    /\ out' = << >>
    /\ last' = Event("connection", s, << >>)
    /\ UNCHANGED <<rooms, roomKeys, boards, groups, running>>

\* socket.on("joinRoom", ({ roomId, user }) => ...)
JoinRoom(s, roomId, user) ==
    /\ running
    /\ conn[s] = "open"
    /\ groups' = [groups EXCEPT ![roomId] = @ \cup {s}]
    /\ currentRoom' = [currentRoom EXCEPT ![s] = roomId]
    /\ roomKeys' = IF roomId \in DOMAIN rooms THEN roomKeys
                   ELSE Append(roomKeys, roomId)
    /\ IF IsMissing(user)
       THEN \* user.id throws a TypeError after the room entry is made; nothing
            \* catches it and the process ends
            /\ rooms' = Put(rooms, roomId, RoomOf(roomId))
            /\ running' = FALSE
            /\ out' = << >>
            /\ UNCHANGED <<currentUser, boards>>
       ELSE \E userColor \in
                (IF findIndex(RoomOf(roomId), user.id) # 0
                 THEN { NoColor }      \* the reconnect branch assigns no color
                 ELSE assignColor(RoomOf(roomId), user.color)) :
             LET room == joinedRoom(RoomOf(roomId), user, userColor, s, Now)
                 board == IF roomId \in DOMAIN boards THEN boards[roomId]
                          ELSE EmptyBoard
             IN  /\ currentUser' = [currentUser EXCEPT ![s] = user.id]
                 /\ rooms' = Put(rooms, roomId, room)
                 /\ boards' = Put(boards, roomId, board)
                 /\ out' = joinEmits(groups', s, roomId, board, room,
                                     room[findIndex(room, user.id)])
                 /\ UNCHANGED running
    /\ last' = Event("joinRoom", s, [roomId |-> roomId, user |-> user])
    /\ UNCHANGED <<conn>>

\* mutant: cursorUpdate is emitted whether or not the user was found
CursorMove_EmitsWhenAbsent(s, roomId, userId, cursor) ==
    /\ running
    /\ conn[s] = "open"
    /\ LET userIndex == findIndex(RoomOf(roomId), userId)
       IN  /\ rooms' = IF /\ currentRoom[s] = roomId
                          /\ currentUser[s] # NoUser
                          /\ roomId \in DOMAIN rooms
                          /\ userIndex # 0
                       THEN [rooms EXCEPT ![roomId] =
                                movedCursor(@, userIndex, cursor, Now)]
                       ELSE rooms
           /\ out' = << ToOthers(groups, s, roomId, "cursorUpdate",
                                 [userId |-> userId, cursor |-> cursor]) >>
    /\ last' = Event("cursorMove", s,
                     [roomId |-> roomId, userId |-> userId, cursor |-> cursor])
    /\ UNCHANGED <<roomKeys, boards, groups, conn, currentUser, currentRoom,
                   running>>

\* socket.on("cursorMove", ({ roomId, userId, cursor }) => ...)
CursorMove(s, roomId, userId, cursor) ==
    /\ running
    /\ conn[s] = "open"
    /\ LET userIndex == findIndex(RoomOf(roomId), userId)
       IN  IF /\ currentRoom[s] = roomId
              /\ currentUser[s] # NoUser
              /\ roomId \in DOMAIN rooms
              /\ userIndex # 0
           THEN /\ rooms' = [rooms EXCEPT ![roomId] =
                                movedCursor(@, userIndex, cursor, Now)]
                /\ out' = << ToOthers(groups, s, roomId, "cursorUpdate",
                                      [userId |-> userId, cursor |-> cursor]) >>
           ELSE /\ rooms' = rooms
                /\ out' = << >>
    /\ last' = Event("cursorMove", s,
                     [roomId |-> roomId, userId |-> userId, cursor |-> cursor])
    /\ UNCHANGED <<roomKeys, boards, groups, conn, currentUser, currentRoom,
                   running>>

\* socket.on("leaveRoom", ({ roomId, userId }) => ...)
LeaveRoom(s, roomId, userId) ==
    /\ running
    /\ conn[s] = "open"
    /\ IF roomId \in DOMAIN rooms
       THEN /\ rooms' = [rooms EXCEPT ![roomId] = filterOutId(@, userId)]
            /\ out' = << ToOthers(groups, s, roomId, "userLeft", userId) >>
       ELSE /\ rooms' = rooms
            /\ out' = << >>
    /\ last' = Event("leaveRoom", s, [roomId |-> roomId, userId |-> userId])
    /\ UNCHANGED <<roomKeys, boards, groups, conn, currentUser, currentRoom,
                   running>>

\* socket.on("draw", ({ roomId, strokeData }) => ...)
Draw(s, roomId, strokeData) ==
    /\ running
    /\ conn[s] = "open"
    /\ LET board == IF roomId \in DOMAIN boards THEN boards[roomId] ELSE EmptyBoard
       IN  IF IsMissing(strokeData)
           THEN \* strokeData.tool throws a TypeError after the board entry is
                \* made; nothing catches it and the process ends
                /\ boards' = Put(boards, roomId, board)
                /\ running' = FALSE
                /\ out' = << >>
           ELSE /\ boards' = Put(boards, roomId, appendStroke(board, strokeData))
                /\ out' = << ToOthers(groups, s, roomId, "draw", strokeData) >>
                /\ UNCHANGED running
    /\ last' = Event("draw", s, [roomId |-> roomId, strokeData |-> strokeData])
    /\ UNCHANGED <<rooms, roomKeys, groups, conn, currentUser, currentRoom>>

\* mutant: every board is cleared, not only the board of roomId
ClearBoard_ClearsEveryBoard(s, roomId) ==
    /\ running
    /\ conn[s] = "open"
    /\ boards' = [r \in DOMAIN boards \cup {roomId} |-> EmptyBoard]
    /\ out' = << ToAll(groups, roomId, "clearBoard", << >>) >>
    /\ last' = Event("clearBoard", s, [roomId |-> roomId])
    /\ UNCHANGED <<rooms, roomKeys, groups, conn, currentUser, currentRoom,
                   running>>

\* socket.on("clearBoard", ({ roomId }) => ...)
ClearBoard(s, roomId) ==
    /\ running
    /\ conn[s] = "open"
    /\ boards' = Put(boards, roomId, EmptyBoard)
    /\ out' = << ToAll(groups, roomId, "clearBoard", << >>) >>
    /\ last' = Event("clearBoard", s, [roomId |-> roomId])
    /\ UNCHANGED <<rooms, roomKeys, groups, conn, currentUser, currentRoom,
                   running>>

\* socket.on("updateBoard", ({ roomId, lines, shapes }) => ...)
UpdateBoard(s, roomId, lines, shapes) ==
    /\ running
    /\ conn[s] = "open"
    /\ boards' = Put(boards, roomId, [lines |-> lines, shapes |-> shapes])
    /\ out' = << ToOthers(groups, s, roomId, "updateBoard",
                          [lines |-> lines, shapes |-> shapes]) >>
    /\ last' = Event("updateBoard", s,
                     [roomId |-> roomId, lines |-> lines, shapes |-> shapes])
    /\ UNCHANGED <<rooms, roomKeys, groups, conn, currentUser, currentRoom,
                   running>>

\* socket.on("disconnect", () => ...); the transport has already taken the
\* socket out of every group when the handler runs
Disconnect(s) ==
    /\ running
    /\ conn[s] = "open"
    /\ conn' = [conn EXCEPT ![s] = "closed"]
    /\ LET roomId == currentRoom[s]
           userId == currentUser[s]
           grp == [r \in DOMAIN groups |-> groups[r] \ {s}]
       IN  /\ groups' = grp
           /\ IF /\ roomId # NoRoom
                 /\ roomId # Undefined
                 /\ userId # NoUser
                 /\ roomId \in DOMAIN rooms
                 /\ isCurrentSocket(rooms[roomId], userId, s)
              THEN /\ rooms' = [rooms EXCEPT ![roomId] = filterOutId(@, userId)]
                   /\ out' = << ToOthers(grp, s, roomId, "userLeft", userId) >>
              ELSE /\ rooms' = rooms
                   /\ out' = << >>
    \* the closure dies with the socket; the event records what it held
    /\ currentUser' = [currentUser EXCEPT ![s] = NoUser]
    /\ currentRoom' = [currentRoom EXCEPT ![s] = NoRoom]
    /\ last' = Event("disconnect", s,
                     [roomId |-> currentRoom[s], userId |-> currentUser[s]])
    /\ UNCHANGED <<roomKeys, boards, running>>

\* the emissions of the cleanup for the rooms keys[i..], in key order
RECURSIVE sweepEmits(_, _, _, _)
sweepEmits(all, keys, i, t) ==
    IF i > Len(keys) THEN << >>
    ELSE LET room == all[keys[i]]
             kept == activeUsers(room, t)
         IN  (IF Len(kept) # Len(room)
              THEN << ToAll(groups, keys[i], "userList", kept) >>
              ELSE << >>) \o sweepEmits(all, keys, i + 1, t)

\* every lastSeen of the room moved back by d: the clock origin moves forward by d
\* (a lastSeen older than the timeout is kept at the timeout: the code cannot tell
\* such values apart)
elapse(room, d) ==
    [i \in 1..Len(room) |->
        [room[i] EXCEPT !.lastSeen = IF @ - d < Now - timeout
                                     THEN Now - timeout ELSE @ - d]]

\* setInterval(() => ..., 10000): the interval elapses and the periodic cleanup
\* of inactive users runs, reading Date.now() once
Sweep ==
    LET aged == [r \in DOMAIN rooms |-> elapse(rooms[r], SweepInterval)]
    IN  /\ running
        /\ rooms' = [r \in DOMAIN rooms |-> activeUsers(aged[r], Now)]
        /\ out' = sweepEmits(aged, roomKeys, 1, Now)
        /\ last' = Event("sweep", "", << >>)
        /\ UNCHANGED <<roomKeys, boards, groups, conn, currentUser, currentRoom,
                   running>>

-----------------------------------------------------------------------------
(* The coordinator: any open connection may send any event at any time *)

\* one more handler runs, within the bound of the model
Budget == steps < MaxSteps /\ steps' = steps + 1

Next ==
    \/ \E s \in Sockets : Budget /\ Connect(s)
    \/ \E s \in Sockets, r \in RoomIds, user \in JoinUsers :
            Budget /\ JoinRoom(s, r, user)
    \/ \E s \in Sockets, r \in RoomIds, u \in UserIds, c \in Cursors :
            Budget /\ CursorMove(s, r, u, c)
    \/ \E s \in Sockets, r \in RoomIds, u \in UserIds :
            Budget /\ LeaveRoom(s, r, u)
    \/ \E s \in Sockets, r \in RoomIds, d \in Strokes : Budget /\ Draw(s, r, d)
    \/ \E s \in Sockets, r \in RoomIds : Budget /\ ClearBoard(s, r)
    \/ \E s \in Sockets, r \in RoomIds, b \in BoardUpdates :
            Budget /\ UpdateBoard(s, r, b.lines, b.shapes)
    \/ \E s \in Sockets : Budget /\ Disconnect(s)
    \/ Budget /\ Sweep

Spec == Init /\ [][Next]_vars

-----------------------------------------------------------------------------
(* A full room: the state after one connection has joined room r1 with as   *)
(* many identities as the palette has colors, none of them asking for a     *)
(* color, so that the palette is in use from its first to its last entry.   *)

FullRoomIds ==
    << "p01", "p02", "p03", "p04", "p05", "p06", "p07", "p08",
       "p09", "p10", "p11", "p12", "p13", "p14", "p15" >>

FullRoomUser(i) ==
    [id |-> FullRoomIds[i], name |-> "Guest", color |-> NoColor, cursor |-> NoCursor]

\* rooms["r1"] after joinRoom for FullRoomIds[1..n], in this order, on socket s
RECURSIVE FullRoom(_, _)
FullRoom(n, s) ==
    IF n = 0 THEN << >>
    ELSE LET room == FullRoom(n - 1, s)
             userColor == CHOOSE c \in assignColor(room, NoColor) : TRUE
         IN  joinedRoom(room, FullRoomUser(n), userColor, s, Now)

ColorInit ==
    LET n == Len(FullRoomIds)
        room == FullRoom(n, "s1")
        grp == [r \in GroupKeys |-> IF r = "r1" THEN {"s1"} ELSE {}]
    IN  /\ rooms = Put(<< >>, "r1", room)
        /\ roomKeys = << "r1" >>
        /\ boards = Put(<< >>, "r1", EmptyBoard)
        /\ groups = grp
        /\ conn = [s \in Sockets |-> IF s = "s1" THEN "open" ELSE "idle"]
        /\ currentUser = [s \in Sockets |-> IF s = "s1" THEN FullRoomIds[n] ELSE NoUser]
        /\ currentRoom = [s \in Sockets |-> IF s = "s1" THEN "r1" ELSE NoRoom]
        /\ out = joinEmits(grp, "s1", "r1", EmptyBoard, room, room[n])
        /\ last = Event("joinRoom", "s1", [roomId |-> "r1", user |-> FullRoomUser(n)])
        /\ running = TRUE
        /\ steps = 0

\* the participants that leave the full room: two of the first and the newcomers
ColorLeavers == { "p01", "p02" } \cup UserIds

ColorNext ==
    \/ \E user \in JoinUsers : Budget /\ JoinRoom("s1", "r1", user)
    \/ \E u \in ColorLeavers : Budget /\ LeaveRoom("s1", "r1", u)

ColorSpec == ColorInit /\ [][ColorNext]_vars

-----------------------------------------------------------------------------
(* The coordinator with a timer that never stops: the clients send a        *)
(* bounded number of events, connections open and close, and the interval   *)
(* timer of the cleanup keeps firing (setInterval is never cleared).        *)

LiveBudget == steps < MaxLiveEvents /\ steps' = steps + 1

LiveNext ==
    \/ \E s \in Sockets : Connect(s) /\ UNCHANGED steps
    \/ \E s \in Sockets, r \in RoomIds, user \in JoinUsers :
            LiveBudget /\ JoinRoom(s, r, user)
    \/ \E s \in Sockets, r \in RoomIds, u \in UserIds, c \in Cursors :
            LiveBudget /\ CursorMove(s, r, u, c)
    \/ \E s \in Sockets, r \in RoomIds, u \in UserIds :
            LiveBudget /\ LeaveRoom(s, r, u)
    \/ \E s \in Sockets, r \in RoomIds, d \in Strokes : LiveBudget /\ Draw(s, r, d)
    \/ \E s \in Sockets, r \in RoomIds : LiveBudget /\ ClearBoard(s, r)
    \/ \E s \in Sockets, r \in RoomIds, b \in BoardUpdates :
            LiveBudget /\ UpdateBoard(s, r, b.lines, b.shapes)
    \/ \E s \in Sockets : Disconnect(s) /\ UNCHANGED steps
    \/ Sweep /\ UNCHANGED steps

LiveSpec == Init /\ [][LiveNext]_vars /\ WF_vars(Sweep /\ UNCHANGED steps)

-----------------------------------------------------------------------------
(* The coordinator of one room whose clients draw every kind of payload *)

BoardRoom == "r1"
\* the identities that join it: one that asks for no color, one with no cursor
BoardUsers == { u \in JoinUsers : u.color = NoColor \/ u.cursor = NoCursor }

\* one more handler runs, within the bound of these runs
BoardBudget == steps < MaxBoardSteps /\ steps' = steps + 1

BoardNext ==
    \/ \E s \in Sockets : BoardBudget /\ Connect(s)
    \/ \E s \in Sockets, user \in BoardUsers : BoardBudget /\ JoinRoom(s, BoardRoom, user)
    \/ \E s \in Sockets, u \in UserIds, c \in Cursors :
            BoardBudget /\ CursorMove(s, BoardRoom, u, c)
    \/ \E s \in Sockets, u \in UserIds : BoardBudget /\ LeaveRoom(s, BoardRoom, u)
    \/ \E s \in Sockets, d \in AllStrokes : BoardBudget /\ Draw(s, BoardRoom, d)
    \/ \E s \in Sockets : BoardBudget /\ ClearBoard(s, BoardRoom)
    \/ \E s \in Sockets, b \in BoardUpdates :
            BoardBudget /\ UpdateBoard(s, BoardRoom, b.lines, b.shapes)
    \/ \E s \in Sockets : BoardBudget /\ Disconnect(s)
    \/ BoardBudget /\ Sweep

BoardSpec == Init /\ [][BoardNext]_vars

-----------------------------------------------------------------------------
(* The coordinator with clients that also send events whose payload lacks   *)
(* the room id or the object the handler reads                              *)

\* a room id or none; an identity that asks for no color, or none; a stroke or none
FaultRooms == { "r1", Undefined }
FaultUsers == { u \in JoinUsers : u.color = NoColor } \cup { MissingObject }
FaultStrokes == { PenStroke, MissingObject }

\* one more handler runs, within the bound of these runs
FaultBudget == steps < MaxFaultSteps /\ steps' = steps + 1

FaultNext ==
    \/ \E s \in Sockets : FaultBudget /\ Connect(s)
    \/ \E s \in Sockets, r \in FaultRooms, user \in FaultUsers :
            FaultBudget /\ JoinRoom(s, r, user)
    \/ \E s \in Sockets, r \in FaultRooms, u \in UserIds, c \in Cursors :
            FaultBudget /\ CursorMove(s, r, u, c)
    \/ \E s \in Sockets, r \in FaultRooms, u \in UserIds :
            FaultBudget /\ LeaveRoom(s, r, u)
    \/ \E s \in Sockets, r \in FaultRooms, d \in FaultStrokes :
            FaultBudget /\ Draw(s, r, d)
    \/ \E s \in Sockets, r \in FaultRooms : FaultBudget /\ ClearBoard(s, r)
    \/ \E s \in Sockets, r \in FaultRooms, b \in BoardUpdates :
            FaultBudget /\ UpdateBoard(s, r, b.lines, b.shapes)
    \/ \E s \in Sockets : FaultBudget /\ Disconnect(s)
    \/ FaultBudget /\ Sweep

FaultSpec == Init /\ [][FaultNext]_vars

-----------------------------------------------------------------------------
(* Vocabulary of the properties *)

\* list(r): the participant records of room r, in insertion order
list(rms, r) == IF r \in DOMAIN rms THEN rms[r] ELSE << >>

HasRecord(rms, r, p) == \E i \in 1..Len(list(rms, r)) : list(rms, r)[i].id = p

RecordOf(rms, r, p) ==
    list(rms, r)[CHOOSE i \in 1..Len(list(rms, r)) : list(rms, r)[i].id = p]

\* the records of room r other than those of participant p, in order
Others(rms, r, p) == SelectSeq(list(rms, r), LAMBDA u : u.id # p)

\* the step just taken ran the handler of event op on connection c
Ran(op, c) == last'.op = op /\ last'.sock = c /\ conn[c] = "open"

\* an emission of the last handler that at least one connection receives
Delivered(e) == e.to # {}

-----------------------------------------------------------------------------
(* C1: reconnect race.  The close event of connection c removes the record  *)
(* of the participant bound to c, in the room bound to c, exactly when that *)
(* record's connectionRef is still c, and then userLeft goes to the rest of *)
(* the room; otherwise (c was superseded by a later join on another         *)
(* connection, or the record is gone) it changes no room and no board and   *)
(* emits nothing.                                                           *)
C1_CloseRemovesOnlyOwnRecord ==
    [][\A c \in Sockets :
        Ran("disconnect", c) =>
            LET r == currentRoom[c]
                p == currentUser[c]
            IN  IF /\ r # NoRoom
                   /\ p # NoUser
                   /\ HasRecord(rooms, r, p)
                   /\ RecordOf(rooms, r, p).socketId = c
                THEN /\ ~HasRecord(rooms', r, p)
                     /\ list(rooms', r) = Others(rooms, r, p)
                     /\ \A q \in RoomIds \ {r} : list(rooms', q) = list(rooms, q)
                     /\ Len(out') = 1
                     /\ out'[1].ev = "userLeft"
                     /\ out'[1].arg = p
                     /\ out'[1].to = groups[r] \ {c}
                ELSE /\ rooms' = rooms
                     /\ out' = << >>
               /\ boards' = boards
      ]_vars

\* C1 witness: connection A, bound to participant P of room r, has just closed
\* after P joined r again on connection B: P is still listed, on B, nothing sent
C1_Witness ==
    /\ last.op = "disconnect"
    /\ last.arg.userId # NoUser
    /\ HasRecord(rooms, last.arg.roomId, last.arg.userId)
    /\ RecordOf(rooms, last.arg.roomId, last.arg.userId).socketId # last.sock
    /\ conn[RecordOf(rooms, last.arg.roomId, last.arg.userId).socketId] = "open"
    /\ out = << >>

\* connection a was bound to participant p of room r and p's record has since
\* been taken over by another connection
Superseded(a, r, p) ==
    /\ conn[a] = "open"
    /\ currentRoom[a] = r
    /\ currentUser[a] = p
    /\ HasRecord(rooms, r, p)
    /\ RecordOf(rooms, r, p).socketId # a

\* an emission about participant p
About(e, p) ==
    \/ e.ev = "userLeft" /\ e.arg = p
    \/ e.ev = "cursorUpdate" /\ e.arg.userId = p

(* C2: superseded connections are inert.  Once P's record in r belongs to   *)
(* connection B, no cursorMove, leaveRoom or close received on the earlier  *)
(* connection A changes P's record or emits an event about P.               *)
C2_SupersededInert ==
    [][\A a \in Sockets, r \in RoomIds, p \in UserIds :
        ( /\ Superseded(a, r, p)
          /\ \/ Ran("cursorMove", a)
             \/ Ran("leaveRoom", a)
             \/ Ran("disconnect", a) )
        => /\ HasRecord(rooms', r, p)
           /\ RecordOf(rooms', r, p) = RecordOf(rooms, r, p)
           /\ \A i \in 1..Len(out') : ~About(out'[i], p)
      ]_vars

(* C3: room scoping.  A cursorMove, leaveRoom, draw, clearBoard or          *)
(* updateBoard received on a connection whose joined room is not the        *)
(* event's roomId (or that joined no room) changes no room and no board and *)
(* reaches no connection.                                                   *)
C3_OtherRoomEventsAreNoOps ==
    [][\A c \in Sockets :
        ( /\ \/ Ran("cursorMove", c)
             \/ Ran("leaveRoom", c)
             \/ Ran("draw", c)
             \/ Ran("clearBoard", c)
             \/ Ran("updateBoard", c)
          /\ last'.arg.roomId # currentRoom[c] )
        => /\ rooms' = rooms
           /\ boards' = boards
           /\ \A i \in 1..Len(out') : ~Delivered(out'[i])
      ]_vars

\* the connections that are the connectionRef of a live record of room r
Authoritative(r) == { list(rooms, r)[i].socketId : i \in 1..Len(list(rooms, r)) }

(* C4: multicast recipients.  Every event multicast to room r by the last   *)
(* handler is delivered only to connections that are the current            *)
(* connectionRef of a participant with a live record in r.                  *)
C4_MulticastOnlyToAuthoritative ==
    \A i \in 1..Len(out) :
        out[i].cast # "socket.emit" => out[i].to \subseteq Authoritative(out[i].room)

(* C5: in every room the participants of list(R) have pairwise distinct ids *)
C5_UniqueIds ==
    \A r \in DOMAIN rooms :
        \A i, j \in 1..Len(rooms[r]) : rooms[r][i].id = rooms[r][j].id => i = j

\* C5 witness: a participant of a room of two has just joined it again (its
\* record is not the last of the list, where a new record would be)
C5_Witness ==
    /\ last.op = "joinRoom"
    /\ Len(list(rooms, last.arg.roomId)) = 2
    /\ list(rooms, last.arg.roomId)[1].id = last.arg.user.id

\* the position of participant p in list(r)
IndexOf(rms, r, p) == CHOOSE i \in 1..Len(list(rms, r)) : list(rms, r)[i].id = p

(* C6: reconnect keeps identity state.  When joinRoom(r, identity) is       *)
(* processed and identity.id already has a record in r, the record keeps    *)
(* its color and its position, the list keeps its length and its other      *)
(* records, connectionRef becomes the joining connection, active becomes    *)
(* true, lastSeenAt becomes now, and cursor becomes the supplied cursor if  *)
(* one is provided and otherwise keeps its prior value.                     *)
C6_ReconnectKeepsIdentity ==
    [][\A c \in Sockets, r \in RoomIds :
        ( /\ Ran("joinRoom", c)
          /\ last'.arg.roomId = r
          /\ HasRecord(rooms, r, last'.arg.user.id) )
        => LET user == last'.arg.user
               i == IndexOf(rooms, r, user.id)
               before == rooms[r][i]
               after == rooms'[r][i]
           IN  /\ Len(rooms'[r]) = Len(rooms[r])
               /\ \A j \in 1..Len(rooms[r]) : j # i => rooms'[r][j] = rooms[r][j]
               /\ after.id = user.id
               /\ after.color = before.color
               /\ after.name = before.name
               /\ after.socketId = c
               /\ after.isActive = TRUE
               /\ after.lastSeen = Now
               /\ after.cursor = IF user.cursor # NoCursor THEN user.cursor
                                 ELSE before.cursor
      ]_vars

\* C6 witness: a participant that is listed first in a room of two has just
\* joined again, asking for a different color than the one it has
C6_Witness ==
    /\ last.op = "joinRoom"
    /\ Len(list(rooms, last.arg.roomId)) = 2
    /\ list(rooms, last.arg.roomId)[1].id = last.arg.user.id
    /\ last.arg.user.color # NoColor
    /\ list(rooms, last.arg.roomId)[1].color # last.arg.user.color
    /\ list(rooms, last.arg.roomId)[1].socketId = last.sock

\* the colors of the records of a room
ColorsOf(room) == { room[i].color : i \in 1..Len(room) }

DistinctColors(room) ==
    \A i, j \in 1..Len(room) : room[i].color = room[j].color => i = j

\* the first palette entry, in palette order, that no record of the room uses
FirstFreePaletteColor(room) ==
    userColors[CHOOSE k \in 1..Len(userColors) :
                  /\ userColors[k] \notin ColorsOf(room)
                  /\ \A j \in 1..(k - 1) : userColors[j] \in ColorsOf(room)]

PaletteExhausted(room) ==
    \A k \in 1..Len(userColors) : userColors[k] \in ColorsOf(room)

(* C7, as claimed: in every reachable state in which a room holds no more   *)
(* participants than the palette has entries, all participants of that room *)
(* have pairwise distinct colors.                                           *)
C7_DistinctColorsWithinPalette ==
    \A r \in DOMAIN rooms :
        Len(rooms[r]) <= Len(userColors) => DistinctColors(rooms[r])

(* C7, amended: on a new join the participant gets the requested color if   *)
(* one is supplied and no record of the room uses it, otherwise the first   *)
(* palette entry used by no record of the room, or a pseudo-random color    *)
(* when every palette entry is in use; a new join into a room that holds    *)
(* fewer participants than the palette has entries gets a color that no     *)
(* other participant of the room has.                                       *)
C7_NewJoinColor ==
    [][\A c \in Sockets, r \in RoomIds :
        ( /\ Ran("joinRoom", c)
          /\ last'.arg.roomId = r
          /\ ~HasRecord(rooms, r, last'.arg.user.id) )
        => LET room == list(rooms, r)
               requested == last'.arg.user.color
               joined == rooms'[r][Len(rooms'[r])]
           IN  /\ Len(rooms'[r]) = Len(room) + 1
               /\ joined.id = last'.arg.user.id
               /\ IF requested # NoColor /\ requested \notin ColorsOf(room)
                  THEN joined.color = requested
                  ELSE IF ~PaletteExhausted(room)
                       THEN joined.color = FirstFreePaletteColor(room)
                       ELSE joined.color \in RandomColors
               /\ Len(room) < Len(userColors) => joined.color \notin ColorsOf(room)
      ]_vars

\* C7 witness: a newcomer asked for a color that is in use in a room with one
\* palette color free, and was given that free palette color
C7_Witness ==
    /\ last.op = "joinRoom"
    /\ LET room == list(rooms, last.arg.roomId)
       IN  /\ Len(room) = Len(userColors)
           /\ room[Len(room)].id = last.arg.user.id
           /\ last.arg.user.color # NoColor
           /\ room[Len(room)].color # last.arg.user.color
           /\ \E k \in 1..Len(userColors) : room[Len(room)].color = userColors[k]
           /\ DistinctColors(room)

\* now - lastSeenAt as the sweeper computes it: it reads the clock one sweep
\* interval after the present of the state it starts in
AgeAtSweep(u) == (Now + SweepInterval) - u.lastSeen

\* the record u, unchanged, as stored one sweep interval later
Later(u) == [u EXCEPT !.lastSeen = @ - SweepInterval]

\* the emissions of the last handler, after this step, that are for room r
EmitsFor(r) == SelectSeq(out', LAMBDA e : e.room = r)

Refresh(r, p) ==
    \/ /\ last'.op = "joinRoom"
       /\ last'.arg.roomId = r
       /\ last'.arg.user.id = p
    \/ /\ last'.op = "cursorMove"
       /\ last'.arg.roomId = r
       /\ last'.arg.userId = p
       /\ out' # << >>

(* C9: eventual eviction.  If from some point on no joinRoom and no         *)
(* successful cursorMove for participant P in room r is processed, then,    *)
(* with the sweeper firing again and again, P's record is eventually absent *)
(* from list(r) for good, whether or not P's connection ever closes.        *)
C9_EventualEviction ==
    \A r \in RoomIds, p \in UserIds :
        <>[][~Refresh(r, p)]_vars => <>[](~HasRecord(rooms, r, p))

\* C9 witness: the sweeper has just evicted the participant of a connection
\* that is still open
C9_Witness ==
    /\ last.op = "sweep"
    /\ out # << >>
    /\ \E s \in Sockets :
        /\ conn[s] = "open"
        /\ currentUser[s] # NoUser
        /\ ~HasRecord(rooms, currentRoom[s], currentUser[s])
        /\ s \in out[1].to

(* C10: joinRoom outbound rule.  Processing joinRoom(r, identity) on        *)
(* connection c sends to c, and only to c, a loadBoard carrying the current *)
(* Board of r followed by a userList carrying the post-join list(r), which  *)
(* contains the joiner, and multicasts userJoined(joiner's record) to every *)
(* other connection of r's group and never to c, for a new join and for a   *)
(* reconnect alike.                                                         *)
C10_JoinRoomOutbound ==
    last.op = "joinRoom" =>
        LET c == last.sock
            r == last.arg.roomId
            p == last.arg.user.id
        IN  /\ Len(out) = 3
            /\ r \in DOMAIN boards
            /\ out[1].ev = "loadBoard"
            /\ out[1].to = {c}
            /\ out[1].arg = boards[r]
            /\ out[2].ev = "userList"
            /\ out[2].to = {c}
            /\ out[2].arg = list(rooms, r)
            /\ HasRecord(rooms, r, p)
            /\ out[3].ev = "userJoined"
            /\ out[3].arg = RecordOf(rooms, r, p)
            /\ c \in groups[r]
            /\ out[3].to = groups[r] \ {c}

\* C10 witness: a second participant has just joined a room whose board holds
\* a stroke, and the first participant's connection is sent userJoined
C10_Witness ==
    /\ last.op = "joinRoom"
    /\ Len(out) = 3
    /\ out[1].arg.lines # << >>
    /\ Len(out[2].arg) = 2
    /\ out[3].to # {}

\* the Board of room r, or the empty Board a handler would create for it
BoardOf(bds, r) == IF r \in DOMAIN bds THEN bds[r] ELSE EmptyBoard

\* the payload carries point data or is tagged as pen input
IsLine(d) == d.points # "" \/ d.tool = "pen"

\* the payload is tagged as a rectangle or a circle
IsShape(d) == d.type = "rectangle" \/ d.type = "circle"

(* C11: draw classification and relay.  A draw payload that has points or   *)
(* tool = pen is appended to the end of lines and shapes is unchanged, also *)
(* when it has type rectangle or circle as well; else a payload of type     *)
(* rectangle or circle is appended to the end of shapes and lines is        *)
(* unchanged; otherwise neither sequence changes.  In all three cases the   *)
(* payload is multicast as draw to every other connection of the room's     *)
(* group and never to the sending connection.                               *)
C11_DrawClassifiedAndRelayed ==
    [][\A c \in Sockets :
        Ran("draw", c) =>
            LET r == last'.arg.roomId
                d == last'.arg.strokeData
                before == BoardOf(boards, r)
                after == BoardOf(boards', r)
            IN  /\ IF IsLine(d)
                   THEN /\ after.lines = Append(before.lines, d)
                        /\ after.shapes = before.shapes
                   ELSE IF IsShape(d)
                        THEN /\ after.shapes = Append(before.shapes, d)
                             /\ after.lines = before.lines
                        ELSE after = before
                /\ Len(out') = 1
                /\ out'[1].ev = "draw"
                /\ out'[1].arg = d
                /\ out'[1].to = groups[r] \ {c}
                /\ c \notin out'[1].to
      ]_vars

\* C11 witness: a member of the room has just drawn point data tagged as a
\* rectangle onto a board that held a line and a shape; it is the last of
\* the lines and the other member is sent it
C11_Witness ==
    /\ last.op = "draw"
    /\ last.arg.strokeData = PointsRectangle
    /\ last.sock \in groups[last.arg.roomId]
    /\ LET board == BoardOf(boards, last.arg.roomId)
       IN  /\ Len(board.lines) = 2
           /\ board.lines[2] = PointsRectangle
           /\ Len(board.shapes) = 1
    /\ out[1].to # {}
    /\ last.sock \notin out[1].to

\* the board extended by a draw payload: a recognized payload goes to the end
\* of its sequence, any other payload is not stored
Extended(board, d) ==
    IF IsLine(d) THEN [board EXCEPT !.lines = Append(@, d)]
    ELSE IF IsShape(d) THEN [board EXCEPT !.shapes = Append(@, d)]
    ELSE board

\* the step just taken processed event op for room r
Processed(op, r) == last'.op = op /\ last'.arg.roomId = r

(* C12: snapshot on late join.  The contents of the Board of r are those    *)
(* set by the last clearBoard or updateBoard for r (empty if none),         *)
(* extended in processing order by every recognized draw payload for r      *)
(* since then: a clearBoard empties them, an updateBoard replaces them, a   *)
(* draw extends them, and no joinRoom, cursorMove, leaveRoom, close or      *)
(* sweep loses, duplicates or reorders a stored stroke; the loadBoard sent  *)
(* by joinRoom(r) carries exactly these contents.                           *)
C12_SnapshotOnLateJoin ==
    [][\A r \in RoomIds :
        LET before == BoardOf(boards, r)
            after == BoardOf(boards', r)
        IN  /\ after = IF Processed("clearBoard", r) THEN EmptyBoard
                       ELSE IF Processed("updateBoard", r)
                            THEN [lines |-> last'.arg.lines,
                                  shapes |-> last'.arg.shapes]
                       ELSE IF Processed("draw", r)
                            THEN Extended(before, last'.arg.strokeData)
                       ELSE before
            /\ Processed("joinRoom", r) =>
                    /\ out'[1].ev = "loadBoard"
                    /\ out'[1].to = { last'.sock }
                    /\ out'[1].arg = before
      ]_vars

\* C12 witness: a connection has just joined a room whose board was replaced
\* and then drawn on twice, and its loadBoard carries the replaced contents
\* followed by the two payloads, each at the end of its sequence
C12_Witness ==
    /\ last.op = "joinRoom"
    /\ out[1].ev = "loadBoard"
    /\ out[1].arg = [lines |-> <<PenStroke, PointsRectangle>>,
                     shapes |-> <<Rectangle, Circle>>]
    /\ out[1].arg = BoardOf(boards, last.arg.roomId)

(* C13: clearBoard.  After clearBoard(r) is processed the Board of r is     *)
(* {lines: [], shapes: []}, and the clearBoard event is delivered to every  *)
(* connection of r's group, the sending connection included: the sending    *)
(* connection receives it in every reachable state in which it sends        *)
(* clearBoard(r).                                                           *)
C13_ClearBoard ==
    last.op = "clearBoard" =>
        LET c == last.sock
            r == last.arg.roomId
        IN  /\ BoardOf(boards, r) = EmptyBoard
            /\ r \in DOMAIN boards
            /\ Len(out) = 1
            /\ out[1].ev = "clearBoard"
            /\ out[1].to = groups[r]
            /\ c \in out[1].to

(* C14: identity scoping.  A cursorMove or leaveRoom received on connection *)
(* c affects only the participant identity that c bound at joinRoom time:   *)
(* it never changes the cursor or lastSeenAt of, nor removes, nor emits     *)
(* cursorUpdate or userLeft about, a participant whose id differs from the  *)
(* id c joined with.                                                        *)
C14_IdentityScoping ==
    [][\A c \in Sockets, r \in RoomIds, q \in UserIds :
        ( /\ Ran("cursorMove", c) \/ Ran("leaveRoom", c)
          /\ q # currentUser[c]
          /\ HasRecord(rooms, r, q) )
        => /\ HasRecord(rooms', r, q)
           /\ RecordOf(rooms', r, q).cursor = RecordOf(rooms, r, q).cursor
           /\ RecordOf(rooms', r, q).lastSeen = RecordOf(rooms, r, q).lastSeen
           /\ \A i \in 1..Len(out') : ~About(out'[i], q)
      ]_vars

(* C15: unknown references are no-ops.  A cursorMove whose id has no record *)
(* in the room (for example after that participant was swept or left) and a *)
(* leaveRoom for a room that has no registry change no room and no board    *)
(* and emit nothing; a cursorUpdate is multicast, to the rest of the room,  *)
(* only by a cursorMove that updated the cursor and lastSeenAt of a record. *)
C15_UnknownReferencesAreNoOps ==
    [][/\ ( /\ last'.op = "cursorMove"
            /\ ~HasRecord(rooms, last'.arg.roomId, last'.arg.userId) )
          => /\ rooms' = rooms
             /\ boards' = boards
             /\ out' = << >>
       /\ ( /\ last'.op = "leaveRoom"
            /\ last'.arg.roomId \notin DOMAIN rooms )
          => /\ rooms' = rooms
             /\ boards' = boards
             /\ out' = << >>
       /\ (\E i \in 1..Len(out') : out'[i].ev = "cursorUpdate")
          => /\ last'.op = "cursorMove"
             /\ LET c == last'.sock
                    r == last'.arg.roomId
                    p == last'.arg.userId
                IN  /\ HasRecord(rooms, r, p)
                    /\ HasRecord(rooms', r, p)
                    /\ RecordOf(rooms', r, p).cursor = last'.arg.cursor
                    /\ RecordOf(rooms', r, p).lastSeen = Now
                    /\ Len(out') = 1
                    /\ out'[1].arg = [userId |-> p, cursor |-> last'.arg.cursor]
                    /\ out'[1].to = groups[r] \ {c}
      ]_vars

\* C15 witness: a connection that joined a room has just sent a cursorMove
\* for a participant that once joined that room (its connection is still
\* bound to it) and has no record there any more; nothing was emitted
C15_Witness ==
    /\ last.op = "cursorMove"
    /\ currentRoom[last.sock] = last.arg.roomId
    /\ last.arg.roomId \in DOMAIN rooms
    /\ ~HasRecord(rooms, last.arg.roomId, last.arg.userId)
    /\ \E s \in Sockets :
        /\ currentRoom[s] = last.arg.roomId
        /\ currentUser[s] = last.arg.userId
    /\ out = << >>

(* C16: leaveRoom.  After leaveRoom(r, id) is processed for a room r that   *)
(* has a registry, no record with that id is in list(r), every other record *)
(* of r is unchanged and keeps its relative order, and userLeft(id) is      *)
(* multicast to every connection of r's group except the sending            *)
(* connection, whichever connection holds that id's connectionRef.          *)
C16_LeaveRoom ==
    [][\A c \in Sockets :
        ( /\ Ran("leaveRoom", c)
          /\ last'.arg.roomId \in DOMAIN rooms )
        => LET r == last'.arg.roomId
               id == last'.arg.userId
           IN  /\ ~HasRecord(rooms', r, id)
               /\ list(rooms', r) = Others(rooms, r, id)
               /\ Len(out') = 1
               /\ out'[1].ev = "userLeft"
               /\ out'[1].arg = id
               /\ out'[1].to = groups[r] \ {c}
               /\ c \notin out'[1].to
      ]_vars

\* C16 witness: a participant of a room of two has just been removed by a
\* leaveRoom that the other participant's connection sent; the record of the
\* sender remains and the connection of the removed participant is sent
\* userLeft
C16_Witness ==
    /\ last.op = "leaveRoom"
    /\ Len(list(rooms, last.arg.roomId)) = 1
    /\ list(rooms, last.arg.roomId)[1].socketId = last.sock
    /\ list(rooms, last.arg.roomId)[1].id # last.arg.userId
    /\ Len(out) = 1
    /\ \E s \in out[1].to :
        /\ s # last.sock
        /\ currentRoom[s] = last.arg.roomId
        /\ currentUser[s] = last.arg.userId

\* the event just processed lacks its room id or the object its handler reads
Malformed(e) ==
    \/ e.op = "joinRoom" /\ (e.arg.roomId = Undefined \/ IsMissing(e.arg.user))
    \/ e.op = "draw" /\ (e.arg.roomId = Undefined \/ IsMissing(e.arg.strokeData))

(* C17: malformed events are dropped.  A joinRoom missing roomId or the     *)
(* identity object, or a draw missing roomId or the payload, leaves all     *)
(* rooms, participant records, boards and the connection's room and         *)
(* identity binding unchanged and produces no unicast or multicast, and the *)
(* coordinator keeps processing later events.                               *)
C17_MalformedEventsDropped ==
    [][Malformed(last') =>
        /\ rooms' = rooms
        /\ boards' = boards
        /\ currentRoom' = currentRoom
        /\ currentUser' = currentUser
        /\ out' = << >>
        /\ running'
      ]_vars

(* C18: Board existence.  A Board exists for room r if and only if a        *)
(* joinRoom(r) or a draw(r) has been processed before: every joinRoom(r)    *)
(* and draw(r) leaves r with a Board, a Board comes into existence in no    *)
(* other step (not by clearBoard, updateBoard, cursorMove, leaveRoom, close *)
(* or sweep), and a Board once created is never deleted.                    *)
C18_BoardExistence ==
    [][\A r \in RoomIds :
        /\ (Processed("joinRoom", r) \/ Processed("draw", r))
                => r \in DOMAIN boards'
        /\ (r \notin DOMAIN boards /\ r \in DOMAIN boards')
                => (Processed("joinRoom", r) \/ Processed("draw", r))
        /\ r \in DOMAIN boards => r \in DOMAIN boards'
      ]_vars

(* C19: no record outlives its connection's close.  Once the close event of *)
(* connection c has been processed, no participant record of any room has   *)
(* connectionRef = c, also when c issued more than one joinRoom (for        *)
(* different rooms, or for different ids in the same room) before closing.  *)
C19_NoRecordOutlivesClose ==
    \A c \in Sockets :
        conn[c] = "closed" =>
            \A r \in DOMAIN rooms :
                \A i \in 1..Len(rooms[r]) : rooms[r][i].socketId # c

\* the participant list and the Board of room q are as before the step
SameRoom(q) ==
    /\ (q \in DOMAIN rooms') = (q \in DOMAIN rooms)
    /\ list(rooms', q) = list(rooms, q)
    /\ (q \in DOMAIN boards') = (q \in DOMAIN boards)
    /\ BoardOf(boards', q) = BoardOf(boards, q)

(* C20: frame conditions.  draw, clearBoard and updateBoard leave every     *)
(* room's participant list, every lastSeenAt included, unchanged;           *)
(* cursorMove, leaveRoom, connection close and the sweeper leave every      *)
(* Board unchanged; and an event processed with roomId r leaves the         *)
(* participant list and the Board of every other room unchanged.            *)
C20_FrameConditions ==
    [][/\ last'.op \in { "draw", "clearBoard", "updateBoard" } => rooms' = rooms
       /\ last'.op \in { "cursorMove", "leaveRoom", "disconnect", "sweep" }
            => boards' = boards
       /\ last'.op \in { "joinRoom", "cursorMove", "leaveRoom",
                          "draw", "clearBoard", "updateBoard" }
            => \A q \in RoomIds \ { last'.arg.roomId } : SameRoom(q)
      ]_vars

\* C20 witness: a clearBoard has just been processed for a room while
\* another room has a participant and a board that holds a stroke
C20_Witness ==
    /\ last.op = "clearBoard"
    /\ \E q \in RoomIds \ { last.arg.roomId } :
        /\ Len(list(rooms, q)) > 0
        /\ BoardOf(boards, q).lines # << >>

====
